---- MODULE Spec2Model ----
(***************************************************************************)
(* A model of ros/src/tools/chart.py: the Chart node.  Four subscriber     *)
(* callbacks (waypoints_cb, pose_cb, path_cb, traffic_lights_cb) run on    *)
(* their own threads and hand data to the render loop (Chart.loop) through *)
(* four lock-protected fields.  Every lock acquisition is a step of its    *)
(* own; the statements executed while a lock is held form the step that    *)
(* releases it, except in traffic_lights_cb, whose list is filled one      *)
(* append per step: the loop reads that field without the lock (line 135). *)
(* The assertion of waypoints_cb (line 159), also outside the lock, is a   *)
(* step of its own.                                                        *)
(***************************************************************************)
EXTENDS Integers, Sequences, FiniteSets, TLC

(* ------------------------------ bounds -------------------------------- *)
\* number of /base_waypoints messages delivered
MaxTrackMsgs == 2
\* number of /current_pose, /final_waypoints and /vehicle/traffic_lights
\* messages delivered, all three topics together
MaxMsgs == 2
\* number of iterations of the loop of line 109 that are started
MaxTicks == 2
\* number of messages delivered, all four topics together, in the
\* behaviours checked under fairness
LiveMsgs == 2

\* the lengths of the lists a message carries
TrackLens == {0, 2}
PathLens == {0, 2}
\* the light states a message carries (indices into tl_marker): no light,
\* one light, two lights in different states
StateLists == {<<>>, <<2>>, <<0, 2>>}

\* Python's None
None == [none |-> TRUE]
Free == "free"

(* ----------------------------- messages ------------------------------- *)
\* The k-th message of a topic carries coordinates that no other message of
\* that topic carries: a value names the write it comes from.

\* msg.pose.position of a PoseStamped message
PoseMsg(k) == [x |-> k, y |-> 10 + k]

PointList(k, n) == [i \in 1..n |-> <<k, i>>]

\* msg.waypoints of a Lane message: a list object (id) and its points
LaneMsg(k, n) == [id |-> k, pts |-> PointList(k, n)]

\* msg.lights of a TrafficLightArray message with the given states
LightsMsg(k, states) == [i \in 1..Len(states) |-> <<k, i, states[i]>>]

\* the message a pose comes from (None: the initial value of line 30)
PoseId(p) == IF p = None THEN 0 ELSE p.x

(* ------------------------------ state --------------------------------- *)
VARIABLES
    \* Chart fields (lines 26-41)
    waypoints, waypoints_lock,
    pose, is_pose_updated, pose_lock,
    path, is_path_updated, path_lock,
    traffic_lights, traffic_lights_lock,
    \* rospy: callbacks registered per topic, shutdown flag
    subs, shutdown,
    \* the callback threads: position, message in hand
    wp_pc, wp_msg, pose_pc, pose_msg, path_pc, path_msg, tl_pc, tl_msg,
    \* the render loop: position and locals of loop()
    loop_pc, l_waypoints, first_iter, first_path_iter, update_chart,
    first_tl_iter, l_result, l_xy, l_path, l_tls,
    \* the chart: the artists of self.ax
    track_line, car_dot, path_line, tl_dots,
    \* history: what was delivered and drawn
    n_wp, n_pose, n_path, n_tl, wp_passed, wp_failed,
    sent, taken, tick, n_draw, tick_log

fieldVars == <<waypoints, waypoints_lock, pose, is_pose_updated, pose_lock,
               path, is_path_updated, path_lock,
               traffic_lights, traffic_lights_lock>>
poseVars == <<pose, is_pose_updated, pose_lock>>
pathVars == <<path, is_path_updated, path_lock>>
tlVars == <<traffic_lights, traffic_lights_lock>>
wpVars == <<waypoints, waypoints_lock>>
cbVars == <<wp_pc, wp_msg, pose_pc, pose_msg, path_pc, path_msg, tl_pc, tl_msg>>
loopVars == <<loop_pc, l_waypoints, first_iter, first_path_iter, update_chart,
              first_tl_iter, l_result, l_xy, l_path, l_tls>>
chartVars == <<track_line, car_dot, path_line, tl_dots>>
countVars == <<n_wp, n_pose, n_path, n_tl, wp_passed, wp_failed>>
histVars == <<sent, taken, tick, n_draw, tick_log>>
envVars == <<subs, shutdown>>

vars == <<fieldVars, cbVars, loopVars, chartVars, countVars, histVars, envVars>>

\* what one iteration of the loop of line 109 has done so far
NewTick == [pose_pending |-> FALSE, path_pending |-> FALSE,
            tl_written |-> FALSE, pose_seen |-> 0, tl_racing |-> FALSE,
            took_pose |-> FALSE, took_path |-> FALSE, tl_present |-> FALSE,
            decided |-> FALSE, changed |-> FALSE, draws |-> 0, pauses |-> 0]

Init ==
    /\ waypoints = <<>> /\ waypoints_lock = Free
    /\ pose = None /\ is_pose_updated = FALSE /\ pose_lock = Free
    /\ path = [id |-> 0, pts |-> <<>>] /\ is_path_updated = FALSE
    /\ path_lock = Free
    /\ traffic_lights = None /\ traffic_lights_lock = Free
    /\ subs = [base_waypoints |-> 1, current_pose |-> 0,
               final_waypoints |-> 0, traffic_lights |-> 0]
    /\ shutdown = FALSE
    /\ wp_pc = "idle" /\ wp_msg = <<>>
    /\ pose_pc = "idle" /\ pose_msg = None
    /\ path_pc = "idle" /\ path_msg = [id |-> 0, pts |-> <<>>]
    /\ tl_pc = "idle" /\ tl_msg = <<>>
    /\ loop_pc = "L91" /\ l_waypoints = <<>>
    /\ first_iter = TRUE /\ first_path_iter = TRUE /\ update_chart = TRUE
    /\ first_tl_iter = TRUE
    /\ l_result = FALSE /\ l_xy = None /\ l_path = None /\ l_tls = None
    /\ track_line = None /\ car_dot = None /\ path_line = None
    /\ tl_dots = None
    /\ n_wp = 0 /\ n_pose = 0 /\ n_path = 0 /\ n_tl = 0
    /\ wp_passed = 0 /\ wp_failed = 0
    /\ sent = [path |-> <<>>, tl |-> <<>>]
    /\ taken = [pose |-> <<>>, path |-> <<>>]
    /\ tick = 0 /\ n_draw = 0 /\ tick_log = NewTick

\* rospy invokes callbacks while the node runs: not after shutdown, and not
\* after the main thread has left loop() (the process ends with it)
Delivering == ~shutdown /\ loop_pc \notin {"done", "interrupted", "crashed"}

(* ------------------ waypoints_cb (lines 158-166) ---------------------- *)
\* line 159: assert len(self.waypoints) == 0, read without the lock
AssertPasses(stored) == Len(stored) = 0

\* a /base_waypoints message arrives; line 159
WpAssert ==
    /\ wp_pc = "idle" /\ subs.base_waypoints > 0 /\ Delivering
    /\ n_wp < MaxTrackMsgs
    /\ n_wp' = n_wp + 1
    /\ IF AssertPasses(waypoints)
       THEN /\ \E n \in TrackLens : wp_msg' = PointList(n_wp + 1, n)
            /\ wp_pc' = "L160"
            /\ wp_passed' = wp_passed + 1
            /\ UNCHANGED wp_failed
       ELSE \* AssertionError: the callback ends here
            /\ wp_failed' = wp_failed + 1
            /\ UNCHANGED <<wp_pc, wp_msg, wp_passed>>
    /\ UNCHANGED <<fieldVars, pose_pc, pose_msg, path_pc, path_msg, tl_pc,
                   tl_msg, loopVars, chartVars, n_pose, n_path, n_tl,
                   histVars, envVars>>

\* line 160
WpAcquire ==
    /\ wp_pc = "L160" /\ waypoints_lock = Free
    /\ waypoints_lock' = "waypoints_cb"
    /\ wp_pc' = "L161"
    /\ UNCHANGED <<waypoints, poseVars, pathVars, tlVars, wp_msg, pose_pc,
                   pose_msg, path_pc, path_msg, tl_pc, tl_msg, loopVars,
                   chartVars, countVars, histVars, envVars>>

\* lines 161-162
WpWrite ==
    /\ wp_pc = "L161"
    /\ waypoints' = wp_msg
    /\ waypoints_lock' = Free
    /\ wp_pc' = "L164"
    /\ UNCHANGED <<poseVars, pathVars, tlVars, wp_msg, pose_pc, pose_msg,
                   path_pc, path_msg, tl_pc, tl_msg, loopVars, chartVars,
                   countVars, histVars, envVars>>

\* lines 164-166: a rospy.Subscriber for each of the three topics; subs
\* counts the subscribers made per topic
Subscribe(s) ==
    [s EXCEPT !.current_pose = @ + 1, !.final_waypoints = @ + 1,
              !.traffic_lights = @ + 1]

WpSubscribe ==
    /\ wp_pc = "L164"
    /\ subs' = Subscribe(subs)
    /\ wp_pc' = "idle"
    /\ UNCHANGED <<fieldVars, wp_msg, pose_pc, pose_msg, path_pc, path_msg,
                   tl_pc, tl_msg, loopVars, chartVars, countVars, histVars,
                   shutdown>>

\* messages of the three topics delivered so far
Delivered == n_pose + n_path + n_tl

(* --------------------- pose_cb (lines 169-175) ------------------------ *)
\* a /current_pose message arrives; line 170
PoseAcquire ==
    /\ pose_pc = "idle" /\ subs.current_pose > 0 /\ Delivering
    /\ Delivered < MaxMsgs
    /\ pose_lock = Free
    /\ pose_msg' = PoseMsg(n_pose + 1)
    /\ n_pose' = n_pose + 1
    /\ pose_lock' = "pose_cb"
    /\ pose_pc' = "L171"
    /\ UNCHANGED <<pose, is_pose_updated, wpVars, pathVars, tlVars, wp_pc,
                   wp_msg, path_pc, path_msg, tl_pc, tl_msg, loopVars,
                   chartVars, n_wp, n_path, n_tl, wp_passed, wp_failed,
                   histVars, envVars>>

\* only x is stored, y keeps its old value
PoseStoreTorn(msg, old) ==
    [x |-> msg.x, y |-> IF old = None THEN msg.y ELSE old.y]

\* x and y are read but self.pose is not assigned
PoseStoreSkipped(msg, old) == old

\* lines 171-173: self.pose = x, y
PoseStore(msg, old) == [x |-> msg.x, y |-> msg.y]

\* the flag is not raised
FlagNotRaised(old) == old

\* line 174
PoseFlag(old) == TRUE

\* lines 171-175
PoseWrite ==
    /\ pose_pc = "L171"
    /\ pose' = PoseStore(pose_msg, pose)
    /\ is_pose_updated' = PoseFlag(is_pose_updated)
    /\ pose_lock' = Free
    /\ pose_pc' = "idle"
    /\ UNCHANGED <<wpVars, pathVars, tlVars, wp_pc, wp_msg, pose_msg, path_pc,
                   path_msg, tl_pc, tl_msg, loopVars, chartVars, countVars,
                   histVars, envVars>>

(* --------------------- path_cb (lines 177-181) ------------------------ *)
\* a /final_waypoints message arrives; line 178
PathAcquire ==
    /\ path_pc = "idle" /\ subs.final_waypoints > 0 /\ Delivering
    /\ Delivered < MaxMsgs
    /\ path_lock = Free
    /\ \E n \in PathLens :
          /\ path_msg' = LaneMsg(n_path + 1, n)
          /\ sent' = [sent EXCEPT !.path = Append(@, n)]
    /\ n_path' = n_path + 1
    /\ path_lock' = "path_cb"
    /\ path_pc' = "L179"
    /\ UNCHANGED <<path, is_path_updated, wpVars, poseVars, tlVars, wp_pc,
                   wp_msg, pose_pc, pose_msg, tl_pc, tl_msg, loopVars,
                   chartVars, n_wp, n_pose, n_tl, wp_passed, wp_failed,
                   taken, tick, n_draw, tick_log, envVars>>

\* a path is stored only while none is stored yet
PathStoreFirstOnly(msg, old) == IF old.id = 0 THEN msg ELSE old

\* line 179: self.path = msg.waypoints
PathStore(msg, old) == msg

\* line 180
PathFlag(old) == TRUE

\* the lock is not released: line 181 is missing
PathWriteKeepsLock ==
    /\ path_pc = "L179"
    /\ path' = PathStore(path_msg, path)
    /\ is_path_updated' = PathFlag(is_path_updated)
    /\ path_pc' = "idle"
    /\ UNCHANGED <<path_lock, wpVars, poseVars, tlVars, wp_pc, wp_msg,
                   pose_pc, pose_msg, path_msg, tl_pc, tl_msg, loopVars,
                   chartVars, countVars, histVars, envVars>>

\* lines 179-181
PathWrite ==
    /\ path_pc = "L179"
    /\ path' = PathStore(path_msg, path)
    /\ is_path_updated' = PathFlag(is_path_updated)
    /\ path_lock' = Free
    /\ path_pc' = "idle"
    /\ UNCHANGED <<wpVars, poseVars, tlVars, wp_pc, wp_msg, pose_pc, pose_msg,
                   path_msg, tl_pc, tl_msg, loopVars, chartVars, countVars,
                   histVars, envVars>>

(* ---------------- traffic_lights_cb (lines 183-188) ------------------- *)
\* a /vehicle/traffic_lights message arrives; line 184
TLAcquire ==
    /\ tl_pc = "idle" /\ subs.traffic_lights > 0 /\ Delivering
    /\ Delivered < MaxMsgs
    /\ traffic_lights_lock = Free
    /\ \E st \in StateLists :
          /\ tl_msg' = LightsMsg(n_tl + 1, st)
          /\ sent' = [sent EXCEPT !.tl = Append(@, st)]
    /\ n_tl' = n_tl + 1
    /\ traffic_lights_lock' = "traffic_lights_cb"
    /\ tl_pc' = "L185"
    /\ UNCHANGED <<traffic_lights, wpVars, poseVars, pathVars, wp_pc, wp_msg,
                   pose_pc, pose_msg, path_pc, path_msg, loopVars, chartVars,
                   n_wp, n_pose, n_path, wp_passed, wp_failed, taken, tick,
                   n_draw, tick_log, envVars>>

\* line 185: self.traffic_lights = [], the list object of this delivery
TLReset ==
    /\ tl_pc = "L185"
    /\ traffic_lights' = [id |-> n_tl, items |-> <<>>]
    /\ tl_pc' = "L186"
    /\ UNCHANGED <<traffic_lights_lock, wpVars, poseVars, pathVars, wp_pc,
                   wp_msg, pose_pc, pose_msg, path_pc, path_msg, tl_msg,
                   loopVars, chartVars, countVars, histVars, envVars>>

\* lines 186-187: one append per step
TLAppend ==
    /\ tl_pc = "L186"
    /\ Len(traffic_lights.items) < Len(tl_msg)
    /\ traffic_lights' =
          [traffic_lights EXCEPT
             !.items = Append(@, tl_msg[Len(traffic_lights.items) + 1])]
    /\ UNCHANGED <<traffic_lights_lock, wpVars, poseVars, pathVars, cbVars,
                   loopVars, chartVars, countVars, histVars, envVars>>

\* line 188, reached when the for loop of line 186 is exhausted
TLRelease ==
    /\ tl_pc = "L186"
    /\ Len(traffic_lights.items) = Len(tl_msg)
    /\ traffic_lights_lock' = Free
    /\ tl_pc' = "idle"
    /\ UNCHANGED <<traffic_lights, wpVars, poseVars, pathVars, wp_pc, wp_msg,
                   pose_pc, pose_msg, path_pc, path_msg, tl_msg, loopVars,
                   chartVars, countVars, histVars, envVars>>

\* rospy.is_shutdown() becomes true
Shutdown ==
    /\ ~shutdown
    /\ shutdown' = TRUE
    /\ UNCHANGED <<fieldVars, cbVars, loopVars, chartVars, countVars,
                   histVars, subs>>

(* ----------------- the getters (lines 48-84) -------------------------- *)
\* the lock is not waited for
LockIgnored(lock) == TRUE

\* line 81: self.traffic_lights_lock.acquire() returns
TLLockTaken(lock) == lock = Free

\* line 49, 55, 61, 68, 75 or 81: the loop acquires the lock of a getter
LoopAcquire ==
    /\ loop_pc \in {"L49", "L55", "L61", "L68", "L75", "L81"}
    /\ CASE loop_pc = "L49" ->
              /\ waypoints_lock = Free
              /\ waypoints_lock' = "loop" /\ loop_pc' = "L50"
              /\ UNCHANGED <<pose_lock, path_lock, traffic_lights_lock>>
         [] loop_pc = "L55" ->
              /\ pose_lock = Free
              /\ pose_lock' = "loop" /\ loop_pc' = "L56"
              /\ UNCHANGED <<waypoints_lock, path_lock, traffic_lights_lock>>
         [] loop_pc = "L61" ->
              /\ pose_lock = Free
              /\ pose_lock' = "loop" /\ loop_pc' = "L62"
              /\ UNCHANGED <<waypoints_lock, path_lock, traffic_lights_lock>>
         [] loop_pc = "L68" ->
              /\ path_lock = Free
              /\ path_lock' = "loop" /\ loop_pc' = "L69"
              /\ UNCHANGED <<waypoints_lock, pose_lock, traffic_lights_lock>>
         [] loop_pc = "L75" ->
              /\ path_lock = Free
              /\ path_lock' = "loop" /\ loop_pc' = "L76"
              /\ UNCHANGED <<waypoints_lock, pose_lock, traffic_lights_lock>>
         [] loop_pc = "L81" ->
              /\ TLLockTaken(traffic_lights_lock)
              /\ traffic_lights_lock' = "loop" /\ loop_pc' = "L82"
              /\ UNCHANGED <<waypoints_lock, pose_lock, path_lock>>
    /\ UNCHANGED <<waypoints, pose, is_pose_updated, path, is_path_updated,
                   traffic_lights, cbVars, l_waypoints, first_iter,
                   first_path_iter, update_chart, first_tl_iter, l_result,
                   l_xy, l_path, l_tls, chartVars, countVars, histVars,
                   envVars>>

\* lines 50-52 of get_waypoints, back in the loop of line 91
GetWaypoints ==
    /\ loop_pc = "L50"
    /\ l_waypoints' = waypoints
    /\ waypoints_lock' = Free
    /\ loop_pc' = "L93"
    /\ UNCHANGED <<waypoints, poseVars, pathVars, tlVars, cbVars, first_iter,
                   first_path_iter, update_chart, first_tl_iter, l_result,
                   l_xy, l_path, l_tls, chartVars, countVars, histVars,
                   envVars>>

\* lines 56-58 of pose_updated, and the branch of line 111
PoseUpdated ==
    /\ loop_pc = "L56"
    /\ l_result' = is_pose_updated
    /\ pose_lock' = Free
    /\ loop_pc' = IF is_pose_updated THEN "L61" ELSE "L75"
    /\ tick_log' = [tick_log EXCEPT !.pose_seen = PoseId(pose)]
    /\ UNCHANGED <<pose, is_pose_updated, wpVars, pathVars, tlVars, cbVars,
                   l_waypoints, first_iter, first_path_iter, update_chart,
                   first_tl_iter, l_xy, l_path, l_tls, chartVars, countVars,
                   sent, taken, tick, n_draw, envVars>>

\* the flag is left set
KeepFlag(old) == old

\* line 63
ClearPoseFlag(old) == FALSE

\* lines 62-65 of get_pose: x, y = self.get_pose()
GetPose ==
    /\ loop_pc = "L62"
    /\ l_xy' = pose
    /\ is_pose_updated' = ClearPoseFlag(is_pose_updated)
    /\ pose_lock' = Free
    /\ loop_pc' = "L113"
    /\ taken' = [taken EXCEPT !.pose = Append(@, PoseId(pose))]
    /\ tick_log' = [tick_log EXCEPT !.took_pose = TRUE]
    /\ UNCHANGED <<pose, wpVars, pathVars, tlVars, cbVars, l_waypoints,
                   first_iter, first_path_iter, update_chart, first_tl_iter,
                   l_result, l_path, l_tls, chartVars, countVars, sent, tick,
                   n_draw, envVars>>

\* lines 76-78 of path_updated, and the branch of line 121
PathUpdated ==
    /\ loop_pc = "L76"
    /\ l_result' = is_path_updated
    /\ path_lock' = Free
    /\ loop_pc' = IF is_path_updated THEN "L68" ELSE "L135"
    /\ UNCHANGED <<path, is_path_updated, wpVars, poseVars, tlVars, cbVars,
                   l_waypoints, first_iter, first_path_iter, update_chart,
                   first_tl_iter, l_xy, l_path, l_tls, chartVars, countVars,
                   histVars, envVars>>

\* the flag is left as it was
KeepPathFlag(old) == old

\* line 70
ClearPathFlag(old) == FALSE

\* lines 69-72 of get_path
GetPath ==
    /\ loop_pc = "L69"
    /\ l_path' = path
    /\ is_path_updated' = ClearPathFlag(is_path_updated)
    /\ path_lock' = Free
    /\ loop_pc' = "L123"
    /\ taken' = [taken EXCEPT !.path = Append(@, path.id)]
    /\ tick_log' = [tick_log EXCEPT !.took_path = TRUE]
    /\ UNCHANGED <<path, wpVars, poseVars, tlVars, cbVars, l_waypoints,
                   first_iter, first_path_iter, update_chart, first_tl_iter,
                   l_result, l_xy, l_tls, chartVars, countVars, sent, tick,
                   n_draw, envVars>>

\* lines 82-84 of get_traffic_lights
GetTrafficLights ==
    /\ loop_pc = "L82"
    /\ l_tls' = traffic_lights
    /\ traffic_lights_lock' = Free
    /\ loop_pc' = "L137"
    /\ UNCHANGED <<traffic_lights, wpVars, poseVars, pathVars, cbVars,
                   l_waypoints, first_iter, first_path_iter, update_chart,
                   first_tl_iter, l_result, l_xy, l_path, chartVars,
                   countVars, histVars, envVars>>

(* ------------------- Chart.loop (lines 86-156) ------------------------ *)
\* the shutdown request is never seen
NeverShutdown == FALSE

\* lines 91 and 109: rospy.is_shutdown()
is_shutdown == shutdown

\* line 91: while not rospy.is_shutdown() and len(waypoints) == 0
AwaitTrack ==
    /\ loop_pc = "L91"
    /\ loop_pc' = IF ~is_shutdown /\ Len(l_waypoints) = 0
                  THEN "L49" ELSE "L96"
    /\ UNCHANGED <<fieldVars, cbVars, l_waypoints, first_iter,
                   first_path_iter, update_chart, first_tl_iter, l_result,
                   l_xy, l_path, l_tls, chartVars, countVars, histVars,
                   envVars>>

\* lines 93 and 156: rate.sleep() returns, or raises ROSInterruptException
\* when the node was shut down meanwhile (caught at line 193)
RateSleep ==
    /\ loop_pc \in {"L93", "L156"}
    /\ \/ loop_pc' = IF loop_pc = "L93" THEN "L91" ELSE "L109"
       \/ shutdown /\ loop_pc' = "interrupted"
    /\ UNCHANGED <<fieldVars, cbVars, l_waypoints, first_iter,
                   first_path_iter, update_chart, first_tl_iter, l_result,
                   l_xy, l_path, l_tls, chartVars, countVars, histVars,
                   envVars>>

\* lines 96-100: the coordinate lists of the track
Coordinates(points) ==
    [x |-> [i \in 1..Len(points) |-> points[i][1]],
     y |-> [i \in 1..Len(points) |-> points[i][2]]]

\* line 106
InitialUpdateChart == TRUE

\* lines 96-108: the first drawing of the track, and the locals of the loop
DrawTrack ==
    /\ loop_pc = "L96"
    /\ track_line' = Coordinates(l_waypoints)
    /\ first_iter' = TRUE
    /\ first_path_iter' = TRUE
    /\ update_chart' = InitialUpdateChart
    /\ first_tl_iter' = TRUE
    /\ loop_pc' = "L109"
    /\ UNCHANGED <<fieldVars, cbVars, l_waypoints, l_result, l_xy, l_path,
                   l_tls, car_dot, path_line, tl_dots, countVars, histVars,
                   envVars>>

\* line 109: while not rospy.is_shutdown()
LoopHead ==
    /\ loop_pc = "L109"
    /\ IF is_shutdown
       THEN /\ loop_pc' = "done"
            /\ UNCHANGED <<tick, tick_log>>
       ELSE /\ tick < MaxTicks
            /\ loop_pc' = "L55"
            /\ tick' = tick + 1
            /\ tick_log' = [NewTick EXCEPT
                              !.pose_pending = is_pose_updated,
                              !.path_pending = is_path_updated,
                              !.tl_written = (traffic_lights # None
                                              /\ tl_pc = "idle")]
    /\ UNCHANGED <<fieldVars, cbVars, l_waypoints, first_iter,
                   first_path_iter, update_chart, first_tl_iter, l_result,
                   l_xy, l_path, l_tls, chartVars, countVars, sent, taken,
                   n_draw, envVars>>

\* lines 113-119: plot the car dot, or move it
UpdatePose ==
    /\ loop_pc = "L113"
    /\ car_dot' = [x |-> l_xy.x, y |-> l_xy.y]
    /\ first_iter' = FALSE
    /\ update_chart' = TRUE
    /\ loop_pc' = "L75"
    /\ UNCHANGED <<fieldVars, cbVars, l_waypoints, first_path_iter,
                   first_tl_iter, l_result, l_xy, l_path, l_tls, track_line,
                   path_line, tl_dots, countVars, histVars, envVars>>

\* lines 124-133: the for loop over the points of the path, from point i on;
\* s holds path_wp_x, path_wp_y, first_path_iter, path_line, update_chart
RECURSIVE PathLoop(_, _, _)
PathLoop(pts, i, s) ==
    IF i > Len(pts) THEN s
    ELSE LET wx == Append(s.wx, pts[i][1])
             wy == Append(s.wy, pts[i][2])
         IN  PathLoop(pts, i + 1,
                      [wx |-> wx, wy |-> wy, first |-> FALSE,
                       line |-> IF s.first
                                THEN [x |-> wx, y |-> wy]
                                ELSE [s.line EXCEPT !.y = wy, !.x = wx],
                       upd |-> TRUE])

\* lines 123-133
UpdatePath ==
    /\ loop_pc = "L123"
    /\ LET s == PathLoop(l_path.pts, 1,
                         [wx |-> <<>>, wy |-> <<>>, first |-> first_path_iter,
                          line |-> path_line, upd |-> update_chart])
       IN  /\ path_line' = s.line
           /\ first_path_iter' = s.first
           /\ update_chart' = s.upd
    /\ loop_pc' = "L135"
    /\ UNCHANGED <<fieldVars, cbVars, l_waypoints, first_iter, first_tl_iter,
                   l_result, l_xy, l_path, l_tls, track_line, car_dot,
                   tl_dots, countVars, histVars, envVars>>

\* line 135: if self.traffic_lights is not None, read without the lock
CheckTrafficLights ==
    /\ loop_pc = "L135"
    /\ loop_pc' = IF traffic_lights # None THEN "L81" ELSE "L152"
    /\ tick_log' = [tick_log EXCEPT
                      !.tl_present = (traffic_lights # None),
                      !.tl_racing = (traffic_lights # None
                                     /\ tl_pc \in {"L185", "L186"})]
    /\ UNCHANGED <<fieldVars, cbVars, l_waypoints, first_iter,
                   first_path_iter, update_chart, first_tl_iter, l_result,
                   l_xy, l_path, l_tls, chartVars, countVars, sent, taken,
                   tick, n_draw, envVars>>

\* line 108: a colour and a marker shape per light state
tl_marker == << <<"r", "o">>, <<"y", "o">>, <<"g", "o">>, <<"b", "o">> >>

\* lines 137-141
LightColumns(tls) ==
    [x |-> [i \in 1..Len(tls) |-> tls[i][1]],
     y |-> [i \in 1..Len(tls) |-> tls[i][2]],
     c |-> [i \in 1..Len(tls) |-> tl_marker[tls[i][3] + 1]]]

\* the k-th marker.next() of itertools.cycle(tl_c), tl_c not empty
CycleNext(tl_c, k) == tl_c[((k - 1) % Len(tl_c)) + 1]

\* line 144: ax.plot(tl_x, tl_y, fmt) gives the dots the colour of fmt
PlotLights(cols) ==
    [x |-> cols.x, y |-> cols.y,
     face |-> CycleNext(cols.c, 1)[1], edge |-> CycleNext(cols.c, 1)[1]]

\* lines 148-149: the colours of the dots, from two marker.next() calls
RecolourLights(dots, cols) ==
    [dots EXCEPT !.face = CycleNext(cols.c, 1)[1],
                 !.edge = CycleNext(cols.c, 2)[1]]

\* lines 137-150; marker.next() raises StopIteration on an empty cycle,
\* which nothing in loop() catches
UpdateTrafficLights ==
    /\ loop_pc = "L137"
    /\ LET cols == LightColumns(l_tls.items)
       IN  IF Len(cols.c) = 0
           THEN /\ loop_pc' = "crashed"
                /\ UNCHANGED <<tl_dots, first_tl_iter, update_chart>>
           ELSE /\ tl_dots' = IF first_tl_iter
                              THEN PlotLights(cols)
                              ELSE RecolourLights(tl_dots, cols)
                /\ first_tl_iter' = FALSE
                /\ update_chart' = TRUE
                /\ loop_pc' = "L152"
    /\ UNCHANGED <<fieldVars, cbVars, l_waypoints, first_iter,
                   first_path_iter, l_result, l_xy, l_path, l_tls,
                   track_line, car_dot, path_line, countVars, histVars,
                   envVars>>

\* the redraw is not conditional
RedrawAlways(upd) == "L153"

\* line 152: if update_chart
RedrawBranch(upd) == IF upd THEN "L153" ELSE "L156"

RedrawDecision ==
    /\ loop_pc = "L152"
    /\ loop_pc' = RedrawBranch(update_chart)
    /\ tick_log' = [tick_log EXCEPT !.decided = TRUE,
                                    !.changed = update_chart]
    /\ UNCHANGED <<fieldVars, cbVars, l_waypoints, first_iter,
                   first_path_iter, update_chart, first_tl_iter, l_result,
                   l_xy, l_path, l_tls, chartVars, countVars, sent, taken,
                   tick, n_draw, envVars>>

\* line 153: self.fig.canvas.draw()
CanvasDraw ==
    /\ loop_pc = "L153"
    /\ n_draw' = n_draw + 1
    /\ tick_log' = [tick_log EXCEPT !.draws = @ + 1]
    /\ loop_pc' = "L154"
    /\ UNCHANGED <<fieldVars, cbVars, l_waypoints, first_iter,
                   first_path_iter, update_chart, first_tl_iter, l_result,
                   l_xy, l_path, l_tls, chartVars, countVars, sent, taken,
                   tick, envVars>>

\* update_chart is not reset
KeepUpdateChart(upd) == upd

\* line 155: update_chart = False
AfterRedraw(upd) == FALSE

\* lines 154-155: plt.pause(0.001); update_chart = False
Pause ==
    /\ loop_pc = "L154"
    /\ tick_log' = [tick_log EXCEPT !.pauses = @ + 1]
    /\ update_chart' = AfterRedraw(update_chart)
    /\ loop_pc' = "L156"
    /\ UNCHANGED <<fieldVars, cbVars, l_waypoints, first_iter,
                   first_path_iter, first_tl_iter, l_result, l_xy, l_path,
                   l_tls, chartVars, countVars, sent, taken,
                   tick, n_draw, envVars>>

(* -------------------------- specification ----------------------------- *)
Next ==
    \/ WpAssert \/ WpAcquire \/ WpWrite \/ WpSubscribe
    \/ PoseAcquire \/ PoseWrite
    \/ PathAcquire \/ PathWrite
    \/ TLAcquire \/ TLReset \/ TLAppend \/ TLRelease
    \/ Shutdown
    \/ AwaitTrack \/ RateSleep \/ DrawTrack \/ LoopHead
    \/ LoopAcquire \/ GetWaypoints
    \/ PoseUpdated \/ GetPose \/ UpdatePose
    \/ PathUpdated \/ GetPath \/ UpdatePath
    \/ CheckTrafficLights \/ GetTrafficLights \/ UpdateTrafficLights
    \/ RedrawDecision \/ CanvasDraw \/ Pause

Spec == Init /\ [][Next]_vars

\* the steps of the main thread, which runs loop() (line 46)
LoopStep ==
    \/ AwaitTrack \/ RateSleep \/ DrawTrack \/ LoopHead
    \/ LoopAcquire \/ GetWaypoints
    \/ PoseUpdated \/ GetPose \/ UpdatePose
    \/ PathUpdated \/ GetPath \/ UpdatePath
    \/ CheckTrafficLights \/ GetTrafficLights \/ UpdateTrafficLights
    \/ RedrawDecision \/ CanvasDraw \/ Pause

\* the steps of a callback that was invoked, up to its return
WpStep == WpAcquire \/ WpWrite \/ WpSubscribe
TLStep == TLReset \/ TLAppend \/ TLRelease

\* a message of one of the four topics arrives, LiveMsgs of them at most
LiveArrival ==
    /\ n_wp + Delivered < LiveMsgs
    /\ (WpAssert \/ PoseAcquire \/ PathAcquire \/ TLAcquire)

FairNext ==
    \/ LiveArrival \/ Shutdown
    \/ LoopStep \/ WpStep \/ PoseWrite \/ PathWrite \/ TLStep

\* Every thread that can take a step takes one: the main thread and the
\* callback threads are scheduled by the operating system.  A thread that
\* waits in acquire() gets the lock if the lock is free again and again:
\* the loop leaves every lock free during rate.sleep() (0.2 s at 5 Hz),
\* a callback until its next message.  Nothing makes a message arrive or
\* the node shut down.
FairSpec ==
    /\ Init /\ [][FairNext]_vars
    /\ SF_vars(LoopStep)
    /\ SF_vars(WpStep)
    /\ WF_vars(PoseWrite)
    /\ WF_vars(PathWrite)
    /\ WF_vars(TLStep)

(* ------------------------------ claims -------------------------------- *)
StrictlyIncreasing(ids) == \A i \in 1..(Len(ids) - 1) : ids[i] < ids[i + 1]

Last(ids) == ids[Len(ids)]

\* the values the callbacks were handed so far
PosesWritten == {PoseMsg(k) : k \in 1..n_pose}
PathsWritten == {LaneMsg(k, sent.path[k]) : k \in 1..n_path}

\* C1: the poses and the paths the loop takes are written values, each taken
\* at most once, in the order of their writes (some writes are skipped).
C1_TakenOnceInWriteOrder ==
    /\ StrictlyIncreasing(taken.pose)
    /\ \A i \in 1..Len(taken.pose) : taken.pose[i] \in 1..n_pose
    /\ StrictlyIncreasing(taken.path)
    /\ \A i \in 1..Len(taken.path) : taken.path[i] \in 1..n_path

\* two poses written, each taken once, in the order of the writes
C1_Witness == taken.pose = <<1, 2>>

\* C2: no update is lost between pose_updated and get_pose (path_updated and
\* get_path): whenever a dirty flag is false, the stored value is the one
\* the loop took last, or nothing was ever written.
C2_NoLostUpdate ==
    /\ ~is_pose_updated =>
          \/ pose = None
          \/ Len(taken.pose) > 0 /\ Last(taken.pose) = PoseId(pose)
    /\ ~is_path_updated =>
          \/ path.id = 0
          \/ Len(taken.path) > 0 /\ Last(taken.path) = path.id

\* pose 2 was written between the flag check (which saw pose 1) and the take
C2_Witness ==
    /\ loop_pc = "L113"
    /\ tick_log.pose_seen = 1
    /\ l_xy = PoseMsg(2)
    /\ ~is_pose_updated

\* C3: every track delivery after the first one fails the assertion of
\* line 159 and leaves the track and the subscriptions as they were.
C3_OnlyFirstDeliveryPasses ==
    /\ wp_passed <= 1
    /\ subs.current_pose <= 1
    /\ subs.final_waypoints <= 1
    /\ subs.traffic_lights <= 1

\* C4: every pose the loop obtains is the (x, y) of one pose message and
\* every path it obtains is the whole point list of one path message.
C4_NoTornReads ==
    /\ l_xy = None \/ l_xy \in PosesWritten
    /\ l_path = None \/ l_path \in PathsWritten

\* the loop has just taken a path of two points while pose_cb is writing
C4_Witness ==
    /\ loop_pc = "L123"
    /\ l_path = LaneMsg(1, 2)
    /\ pose_pc = "L171"

\* C5: every snapshot the loop obtains from get_traffic_lights is the whole
\* list of one traffic lights message.
C5_WholeSnapshot ==
    l_tls = None
    \/ /\ l_tls.id \in 1..n_tl
       /\ l_tls.items = LightsMsg(l_tls.id, sent.tl[l_tls.id])

\* line 135 saw a list that traffic_lights_cb was still filling, and the
\* loop then obtained the two lights of the message
C5_Witness ==
    /\ loop_pc = "L137"
    /\ tick_log.tl_racing
    /\ Len(l_tls.items) = 2

\* the tick has reached rate.sleep() of line 156
TickDone == loop_pc = "L156"

\* the tick is over: it reached line 156 or died of an exception
TickOver == loop_pc \in {"L156", "crashed"}

UpdateSeen ==
    tick_log.took_pose \/ tick_log.took_path \/ tick_log.tl_present

C7_PendingPoseRendered ==
    tick_log.pose_pending /\ TickOver =>
        /\ tick_log.took_pose
        /\ car_dot = [x |-> l_xy.x, y |-> l_xy.y]
        /\ tick_log.changed
        /\ tick_log.draws = 1

\* what the chart shows of an artist: nothing, while it was not plotted yet
Shown(line) == IF line = None THEN [x |-> <<>>, y |-> <<>>] ELSE line

\* C8: a tick that finds a pending path, of any length, takes it, leaves the
\* path line at the points of that path, sets changed and redraws.
C8_PendingPathRendered ==
    tick_log.path_pending /\ TickDone =>
        /\ tick_log.took_path
        /\ Shown(path_line) = Coordinates(l_path.pts)
        /\ tick_log.changed
        /\ tick_log.draws = 1

\* the colour of tl_marker for the state of a light
StateColour(light) == tl_marker[light[3] + 1][1]

\* C9: once a snapshot was written, every tick renders the dots in the
\* colours of the states of the snapshot it reads, sets changed and redraws.
C9_SignalsRenderedEveryTick ==
    tick_log.tl_written /\ TickOver =>
        /\ tick_log.changed
        /\ tick_log.draws = 1
        /\ tl_dots # None
        /\ \A i \in 1..Len(l_tls.items) :
              /\ tl_dots.face = StateColour(l_tls.items[i])
              /\ tl_dots.edge = StateColour(l_tls.items[i])

\* C10 as claimed: plt.pause is called once in every tick, and
\* fig.canvas.draw only when changed is true.
C10_PauseEveryTick ==
    /\ TickDone => tick_log.pauses = 1
    /\ tick_log.draws > 0 => tick_log.changed

\* C10: plt.pause is called once in a tick where changed is true, right
\* after the one fig.canvas.draw of that tick, and not at all in a tick
\* where changed is false; fig.canvas.draw is called only when changed is
\* true.
C10_PauseOnlyWithDraw ==
    /\ tick_log.pauses <= tick_log.draws
    /\ tick_log.draws <= 1
    /\ tick_log.draws > 0 => tick_log.decided /\ tick_log.changed
    /\ TickDone =>
          /\ tick_log.pauses = tick_log.draws
          /\ tick_log.draws = IF tick_log.changed THEN 1 ELSE 0

\* a tick that ends with changed false and without a call of plt.pause
C10_Witness ==
    /\ TickDone
    /\ tick_log.decided /\ ~tick_log.changed
    /\ tick_log.pauses = 0

\* track deliveries that have completed the write of lines 161-162
TrackWrites == wp_passed - (IF wp_pc \in {"L160", "L161"} THEN 1 ELSE 0)

\* C11: no pose, path or traffic-light callback runs before a track delivery
\* has written self.waypoints, and each of the three topics is subscribed
\* once and never a second time.
C11_DeferredAndSubscribedOnce ==
    /\ Delivered > 0 => TrackWrites > 0
    /\ \A t \in {"current_pose", "final_waypoints", "traffic_lights"} :
          /\ subs[t] > 0 => TrackWrites > 0
          /\ subs[t] <= 1

\* the loop is in the loop of lines 91-93, waiting for the track
AwaitingTrack == loop_pc \in {"L91", "L49", "L50", "L93"}

\* C12: nothing is drawn while the loop waits for the track, and the track
\* is drawn (lines 96-101) and the loop of line 109 reached only after
\* get_waypoints returned a non-empty track, also when the node is shut down
\* while the loop waits.
C12_TrackDrawnOnlyWhenObtained ==
    /\ AwaitingTrack =>
          /\ track_line = None /\ car_dot = None /\ path_line = None
          /\ tl_dots = None /\ n_draw = 0
    /\ track_line # None => Len(l_waypoints) > 0
    /\ loop_pc \in {"L96", "L109"} => Len(l_waypoints) > 0

\* loop() has returned (line 109), or was left by an exception
Exited == loop_pc \in {"done", "interrupted", "crashed"}

\* the locks the main thread holds
LoopLocks ==
    {l \in {"waypoints", "pose", "path", "traffic_lights"} :
        [waypoints |-> waypoints_lock, pose |-> pose_lock, path |-> path_lock,
         traffic_lights |-> traffic_lights_lock][l] = "loop"}

\* C13: once the node is shut down (and stays so), the loop exits, from the
\* loop of line 91 as from the loop of line 109; it holds no lock when it
\* has exited, and it starts no iteration of the loop of line 109 at a
\* check of rospy.is_shutdown() made after the shutdown.
C13_LoopEndsOnShutdown ==
    /\ shutdown ~> Exited
    /\ [](Exited => LoopLocks = {})
    /\ [][shutdown => shutdown']_vars
    /\ [][shutdown /\ loop_pc \in {"L91", "L109"} => tick' = tick]_vars
    /\ [][Exited => loop_pc' = loop_pc]_vars

\* shut down in the middle of an iteration of the loop of line 109 (while
\* pose_cb holds its lock), the loop has ended at line 109
C13_Witness ==
    /\ loop_pc = "done" /\ shutdown
    /\ tick = 1 /\ tick_log.took_pose

\* the value with this id was taken by the loop before
TakenBefore(ids, id) == \E i \in 1..Len(ids) : ids[i] = id

\* C14: a check-then-take on a dirty store returns the stored value and a
\* second one, with no write in between, finds the flag false and takes
\* nothing: the loop goes on to take only a value it has not taken yet, what
\* it took is the stored value, and a check that found the pose flag false
\* saw a value already taken (or the initial None).
C14_SecondTakeFindsNothing ==
    /\ loop_pc \in {"L61", "L62"} =>
          pose # None /\ ~TakenBefore(taken.pose, PoseId(pose))
    /\ loop_pc = "L113" =>
          /\ PoseId(l_xy) = Last(taken.pose)
          /\ ~is_pose_updated => l_xy = pose
    /\ loop_pc = "L75" /\ ~tick_log.took_pose =>
          \/ tick_log.pose_seen = 0
          \/ TakenBefore(taken.pose, tick_log.pose_seen)
    /\ loop_pc \in {"L68", "L69"} =>
          path.id # 0 /\ ~TakenBefore(taken.path, path.id)
    /\ loop_pc = "L123" =>
          /\ l_path.id = Last(taken.path)
          /\ ~is_path_updated => l_path = path

\* the first iteration took the only pose written; the check of the second
\* iteration saw the same pose, found the flag false and took nothing
C14_Witness ==
    /\ tick = 2 /\ loop_pc = "L75"
    /\ n_pose = 1 /\ pose_pc = "idle"
    /\ taken.pose = <<1>>
    /\ tick_log.pose_seen = 1 /\ ~tick_log.took_pose

\* the writes of a callback that have completed (the lock was released)
CompletedPoses == n_pose - (IF pose_pc = "idle" THEN 0 ELSE 1)
CompletedPaths == n_path - (IF path_pc = "idle" THEN 0 ELSE 1)
CompletedLights == n_tl - (IF tl_pc = "idle" THEN 0 ELSE 1)

\* C15: a store holds the value of the most recent completed write and no
\* other, so a read returns that value however many writes completed since
\* the read before: what the loop has read is the stored value unless a
\* later write replaced it since, and the loop never gets an earlier value
\* after a later one.
C15_LastWriteWins ==
    /\ PoseId(pose) = CompletedPoses
    /\ path.id = CompletedPaths
    /\ path.id > 0 => path = LaneMsg(path.id, sent.path[path.id])
    /\ tl_pc = "idle" =>
          IF n_tl = 0 THEN traffic_lights = None
          ELSE traffic_lights = [id |-> n_tl,
                                 items |-> LightsMsg(n_tl, sent.tl[n_tl])]
    /\ loop_pc = "L113" => l_xy = pose \/ PoseId(pose) > PoseId(l_xy)
    /\ loop_pc = "L123" => l_path = path \/ path.id > l_path.id
    /\ loop_pc = "L137" =>
          l_tls = traffic_lights \/ traffic_lights.id > l_tls.id
    /\ l_tls # None => l_tls.id <= CompletedLights
    /\ StrictlyIncreasing(taken.pose) /\ StrictlyIncreasing(taken.path)

\* two poses were written before the first read: the read returned the
\* second, and the first was never returned
C15_Witness ==
    /\ loop_pc = "L113"
    /\ CompletedPoses = 2
    /\ taken.pose = <<2>> /\ l_xy = PoseMsg(2)

\* C16: no stored traffic-light value makes the loop fail: with no delivery
\* yet (None) as with a delivered snapshot of zero lights, the iteration
\* goes on to the redraw decision of line 152 and to its end.
C16_EmptySignalsSkipped ==
    /\ loop_pc # "crashed"
    /\ TickOver => tick_log.decided

\* C17: at the end of an iteration that found traffic-light data, the dots
\* are at the (x, y) of the snapshot read in that iteration and the dot of
\* each light has, as face and as edge, the colour of the state of that
\* light; in the first such iteration and in every later one.
C17_MarkersMatchSnapshot ==
    TickDone /\ tick_log.tl_present =>
        /\ tl_dots # None
        /\ tl_dots.x = LightColumns(l_tls.items).x
        /\ tl_dots.y = LightColumns(l_tls.items).y
        /\ \A i \in 1..Len(l_tls.items) :
              /\ tl_dots.face = StateColour(l_tls.items[i])
              /\ tl_dots.edge = StateColour(l_tls.items[i])

\* C18: seen from outside the critical sections of pose_cb and path_cb, a
\* raised pose flag comes with a stored (x, y) pair of a pose message, never
\* with the initial None, and a raised path flag comes with the point list
\* of the last completed path write; so after the loop has found a flag
\* raised, the take gives it a value it can use (x, y = self.get_pose()).
C18_FlagComesWithValue ==
    /\ pose_lock # "pose_cb" /\ is_pose_updated =>
          pose # None /\ pose \in PosesWritten
    /\ path_lock # "path_cb" /\ is_path_updated =>
          /\ path.id = CompletedPaths /\ path.id > 0
          /\ path \in PathsWritten
    /\ loop_pc \in {"L61", "L62"} => is_pose_updated /\ pose # None
    /\ loop_pc \in {"L68", "L69"} => is_path_updated /\ path.id > 0
    /\ loop_pc = "L113" => l_xy # None /\ l_xy \in PosesWritten
    /\ loop_pc = "L123" => l_path # None /\ l_path \in PathsWritten

\* the loop has found the pose flag raised and is about to take the pose,
\* while path_cb is inside its critical section
C18_Witness ==
    /\ loop_pc = "L61" /\ pose_lock = Free
    /\ is_pose_updated /\ pose = PoseMsg(1)
    /\ path_pc = "L179"

\* the four locks, and the locks a context holds
Locks ==
    [waypoints |-> waypoints_lock, pose |-> pose_lock, path |-> path_lock,
     traffic_lights |-> traffic_lights_lock]

Held(ctx) == {l \in DOMAIN Locks : Locks[l] = ctx}

\* the positions of the loop between acquire() and release() of a getter
LoopSection ==
    [waypoints |-> {"L50"}, pose |-> {"L56", "L62"}, path |-> {"L69", "L76"},
     traffic_lights |-> {"L82"}]

\* the positions of the loop at an acquire() of a getter
LoopRequest ==
    [waypoints |-> {"L49"}, pose |-> {"L55", "L61"}, path |-> {"L68", "L75"},
     traffic_lights |-> {"L81"}]

\* each lock is held by the loop, or by the callback of its store, exactly
\* while that context is between the acquire() and the release() of one
\* operation on that store
LockDiscipline ==
    /\ \A l \in DOMAIN Locks :
          /\ Locks[l] \in {Free, "loop", l \o "_cb"}
          /\ Locks[l] = "loop" <=> loop_pc \in LoopSection[l]
    /\ waypoints_lock = "waypoints_cb" <=> wp_pc = "L161"
    /\ pose_lock = "pose_cb" <=> pose_pc = "L171"
    /\ path_lock = "path_cb" <=> path_pc = "L179"
    /\ traffic_lights_lock = "traffic_lights_cb" <=> tl_pc \in {"L185", "L186"}
    /\ \A ctx \in {"loop", "waypoints_cb", "pose_cb", "path_cb",
                   "traffic_lights_cb"} : Cardinality(Held(ctx)) <= 1

\* the loop draws, redraws, pauses or sleeps
LoopRendering ==
    loop_pc \in {"L93", "L96", "L113", "L123", "L137", "L153", "L154", "L156"}

\* a context waits for a lock only while the holder can take a step
NoDeadlock ==
    /\ \A l \in DOMAIN Locks :
          loop_pc \in LoopRequest[l] /\ Locks[l] # Free =>
              ENABLED (WpStep \/ PoseWrite \/ PathWrite \/ TLStep)
    /\ wp_pc = "L160" /\ waypoints_lock # Free => ENABLED LoopStep
    /\ ~Exited /\ ~(loop_pc = "L109" /\ ~shutdown) =>
          ENABLED (LoopStep \/ WpStep \/ PoseWrite \/ PathWrite \/ TLStep)

StoresDrained ==
    /\ wp_pc = "idle" /\ pose_pc = "idle" /\ path_pc = "idle"
    /\ tl_pc = "idle"
    /\ ~is_pose_updated /\ ~is_path_updated
    /\ traffic_lights # None => tick_log.tl_present /\ l_tls = traffic_lights

\* the chart shows what the stores hold
ChartMatchesStores ==
    /\ pose # None => car_dot = [x |-> pose.x, y |-> pose.y]
    /\ Shown(path_line) = Coordinates(path.pts)
    /\ traffic_lights # None =>
          /\ tl_dots # None
          /\ tl_dots.x = LightColumns(traffic_lights.items).x
          /\ tl_dots.y = LightColumns(traffic_lights.items).y
          /\ \A i \in 1..Len(traffic_lights.items) :
                /\ tl_dots.face = StateColour(traffic_lights.items[i])
                /\ tl_dots.edge = StateColour(traffic_lights.items[i])

\* C20: once the callbacks have stopped writing (and the node is not shut
\* down), the loop reaches a state where both flags are false and the car
\* dot, the path line and the traffic-light dots show what the stores hold,
\* and stays there: an iteration that ends with the stores drained ends
\* with the chart matching them.
C20_ChartConverges ==
    ~shutdown /\ TickOver /\ StoresDrained =>
        /\ TickDone
        /\ ChartMatchesStores

====
